---- MODULE Spec2Model ----
(***************************************************************************)
(* A model of specmatchemp/library.py: the Library container (parameter    *)
(* table, wavelength axis, spectrum tensor, header), its constructor,      *)
(* insert, the container protocol (__iter__/__next__/__len__/__getitem__/  *)
(* __contains__) and the HDF save/load pair to_hdf/read_hdf.               *)
(*                                                                         *)
(* pandas, numpy and h5py objects are modelled by the part of their        *)
(* behaviour the module relies on:                                         *)
(*   - a DataFrame is a set of column names and a sequence of rows, each   *)
(*     row carrying its index label, its lib_index field and one payload   *)
(*     field (cps_name) standing for the other 17 columns;                 *)
(*   - a 1-d ndarray is an explicit sequence of samples followed by `pad`  *)
(*     further samples of value 0 (a run-length form that lets an          *)
(*     array be thousands of samples long, which to_hdf's chunk size       *)
(*     needs);                                                             *)
(*   - the 3-d tensor is its shape (depth, width) and its sequence of      *)
(*     slabs, a slab being the sequence of its `depth` 1-d arrays;         *)
(*   - a dict is a function from its keys, held in a heap of objects so    *)
(*     that two libraries can refer to the same dict.                      *)
(***************************************************************************)
EXTENDS Integers, Sequences, FiniteSets, TLC

VARIABLES
    libs,      \* the Library instances, by slot
    heap,      \* the dict objects headers refer to; object 0 is the default argument of __init__
    today,     \* datetime.date.today(), as a day number
    paramfile, \* the parameter file on disk
    specfile,  \* the spectrum file on disk
    passes,    \* the iteration passes (for loops) of the caller
    result,    \* what the last call did: its operation, arguments and outcome
    log,       \* history: the successful inserts into slot 1 since its empty construction
    saved      \* history: the library as it was at the last to_hdf call

vars == <<libs, heap, today, paramfile, specfile, passes, result, log, saved>>

----------------------------------------------------------------------------
(* Bounds of the model *)

MaxN == 2
MaxW == 2
MaxLibs == 2
MaxPass == 2
MaxDay == 1
BigPad == 3125

(* Program constants *)

TensorDepth == 2
ChunkDepth == 2
TargetChunkBytes == 100000
ItemSize == 8

LIB_COLS ==
    {"lib_index", "cps_name", "obs", "lib_obs", "Teff", "u_Teff", "radius",
     "u_radius", "logg", "u_logg", "feh", "u_feh", "mass", "u_mass", "age",
     "u_age", "vsini", "source", "source_name"}

LibIds == 1..MaxLibs
PassIds == 1..MaxPass
DefaultHeader == 0

----------------------------------------------------------------------------
(* numpy: 1-d arrays and the (N, depth, width) tensor *)

Arr(s, p) == [vals |-> s, pad |-> p]

ALen(a) == Len(a.vals) + a.pad

\* np.empty((0, 2, len(wav)))
EmptyTensor(wav) == [depth |-> TensorDepth, width |-> ALen(wav), slabs |-> <<>>]

\* len(tensor): the size of the leading axis
TLen(t) == Len(t.slabs)

\* [[spectrum, u_spectrum]] as an array: rows of unequal length do not make one
BlockOk(spectrum, u_spectrum) == ALen(spectrum) = ALen(u_spectrum)

\* np.vstack((tensor, [[spectrum, u_spectrum]])) raises ValueError unless the
\* block is an array whose trailing shape is the tensor's
VStackOk(t, spectrum, u_spectrum) ==
    /\ BlockOk(spectrum, u_spectrum)
    /\ t.depth = 2
    /\ t.width = ALen(spectrum)

VStack(t, spectrum, u_spectrum) ==
    [t EXCEPT !.slabs = Append(@, <<spectrum, u_spectrum>>)]

----------------------------------------------------------------------------
(* pandas: the parameter table *)

Row(label, idx, name) == [label |-> label, lib_index |-> idx, cps_name |-> name]

\* pd.DataFrame(columns=LIB_COLS)
EmptyFrame == [columns |-> LIB_COLS, rows |-> <<>>]

\* len(frame)
FLen(f) == Len(f.rows)

\* index in frame.index
InIndex(f, index) == \E k \in 1..Len(f.rows) : f.rows[k].label = index

RECURSIVE SelectLabel(_, _)
SelectLabel(rows, index) ==
    IF rows = <<>> THEN <<>>
    ELSE (IF Head(rows).label = index THEN <<Head(rows)>> ELSE <<>>)
         \o SelectLabel(Tail(rows), index)

\* frame.loc[index]: the rows labelled index (one row comes back as a Series,
\* several as a DataFrame, none raises KeyError)
Loc(f, index) == SelectLabel(f.rows, index)

\* params.lib_index = n: the column is set in every row
SetLibIndex(params, n) ==
    [params EXCEPT !.rows = [k \in 1..Len(@) |-> [@[k] EXCEPT !.lib_index = n]]]

\* pd.concat((table, params), ignore_index=True): rows of table, then rows of
\* params, relabelled 0..n-1; the columns are the union
Concat(table, params) ==
    LET all == table.rows \o params.rows
    IN  [columns |-> table.columns \cup params.columns,
         rows    |-> [k \in 1..Len(all) |-> [all[k] EXCEPT !.label = k - 1]]]

----------------------------------------------------------------------------
(* dicts *)

EmptyDict == [k \in {} |-> 0]

DictSet(d, k, v) == (k :> v) @@ d

DictKeys(d) == DOMAIN d

\* str(datetime.date.today()): the ISO form of the day, one string per day
DateStr(day) == day

----------------------------------------------------------------------------
(* The Library object and the outcome of a call *)

NoLimits == <<>>

NoLib ==
    [live            |-> FALSE,
     library_params  |-> EmptyFrame,
     wav             |-> Arr(<<>>, 0),
     library_spectra |-> EmptyTensor(Arr(<<>>, 0)),
     header          |-> DefaultHeader,
     wavlim          |-> NoLimits,
     it_counter      |-> -1]

Res(op, l, status, msg, arg, rows, pair, flag) ==
    [op |-> op, lib |-> l, status |-> status, msg |-> msg,
     arg |-> arg, rows |-> rows, pair |-> pair, flag |-> flag]

NoResult == Res("none", 0, "ok", "", 0, <<>>, <<>>, FALSE)

NoLog == [fromEmpty |-> FALSE, calls |-> <<>>]

IdlePass == [lib |-> 0, state |-> "idle", yielded |-> <<>>, solo |-> TRUE, clean |-> TRUE]

NoSaved ==
    [called |-> FALSE, library_params |-> EmptyFrame, wav |-> Arr(<<>>, 0),
     library_spectra |-> EmptyTensor(Arr(<<>>, 0)), header |-> EmptyDict]

Init ==
    /\ libs = [l \in LibIds |-> NoLib]
    /\ heap = [r \in {DefaultHeader} \cup LibIds |-> EmptyDict]
    /\ today = 0
    /\ paramfile = [exists |-> FALSE, table |-> EmptyFrame]
    /\ specfile = [exists |-> FALSE, attrs |-> EmptyDict, wav |-> Arr(<<>>, 0),
                   has_spectra |-> FALSE, library_spectra |-> EmptyTensor(Arr(<<>>, 0))]
    /\ passes = [p \in PassIds |-> IdlePass]
    /\ result = NoResult
    /\ log = [l \in LibIds |-> NoLog]
    /\ saved = NoSaved

\* len(library)
LibLen(lib) == TLen(lib.library_spectra)

\* the passes of the caller that are looping over slot l
Looping(l) == {p \in PassIds : passes[p].lib = l /\ passes[p].state = "running"}

\* a pass over a library that is mutated or replaced is no longer a pass over
\* the same library
Stale(l) ==
    [p \in PassIds |->
        IF passes[p].lib = l THEN [passes[p] EXCEPT !.clean = FALSE] ELSE passes[p]]

\* an optional argument of a call
NotGiven(v) == [given |-> FALSE, value |-> v]

Given(v) == [given |-> TRUE, value |-> v]

----------------------------------------------------------------------------
(* Library.__init__ *)

\* the index check of the full path: every index label below num_spec
LabelsBelow(params, num_spec) ==
    \A k \in 1..Len(params.rows) : params.rows[k].label < num_spec

\* the assertions of the full path, in the order the constructor makes them
InitCheck(wav, spectra, params) ==
    IF ~(LIB_COLS \subseteq params.columns) THEN "column required in parameter table"
    ELSE IF FLen(params) # TLen(spectra)
         THEN "Length of parameter table and library spectra are not equal."
    ELSE IF ~LabelsBelow(params, TLen(spectra)) THEN "Index is out of bounds in library_spectra"
    ELSE IF ~(spectra.depth = 2 /\ spectra.width = ALen(wav))
         THEN "library_spectra should have shape"
    ELSE "ok"

\* Library(wav, library_spectra, library_params, header, wavlim) for slot l:
\* the outcome, the object built, and the dict object its header refers to
\* with the dict's content after the call. sp, pr and hd are the optional
\* arguments: .given says whether the caller passed one, .value is what was
\* passed. A dict the caller passes, and the dict the empty path creates, is
\* an object of its own (object l); the default argument is object 0 in
\* every call.
Constructed(l, wav, sp, pr, hd, wavlim) ==
    IF ~sp.given \/ ~pr.given
    THEN [status |-> "ok", msg |-> "", full |-> FALSE,
          lib |-> [live            |-> TRUE,
                   library_params  |-> EmptyFrame,
                   wav             |-> wav,
                   library_spectra |-> EmptyTensor(wav),
                   header          |-> l,
                   wavlim          |-> wavlim,
                   it_counter      |-> -1],
          dict |-> DictSet(EmptyDict, "date_created", DateStr(today))]
    ELSE LET msg == InitCheck(wav, sp.value, pr.value)
             ref == IF hd.given THEN l ELSE DefaultHeader
             dict == IF hd.given THEN hd.value ELSE heap[DefaultHeader]
         IN  IF msg # "ok"
             THEN [status |-> "AssertionError", msg |-> msg, full |-> TRUE,
                   lib |-> NoLib, dict |-> EmptyDict]
             ELSE [status |-> "ok", msg |-> "", full |-> TRUE,
                   lib |-> [live            |-> TRUE,
                            library_params  |-> pr.value,
                            wav             |-> wav,
                            library_spectra |-> sp.value,
                            header          |-> ref,
                            wavlim          |-> wavlim,
                            it_counter      |-> -1],
                   dict |-> DictSet(dict, "date_created", DateStr(today))]

\* lib_l = Library(...): each slot is a name of the caller that is bound
\* once; a constructor that raises binds nothing
NewLibrary(l, wav, sp, pr, hd, wavlim) ==
    /\ ~libs[l].live
    /\ UNCHANGED <<today, paramfile, specfile, passes, saved>>
    /\ LET c == Constructed(l, wav, sp, pr, hd, wavlim)
       IN  /\ result' = Res("init", l, c.status, c.msg, 0, <<>>, <<>>, c.full)
           /\ IF c.status = "ok"
              THEN /\ libs' = [libs EXCEPT ![l] = c.lib]
                   /\ heap' = [heap EXCEPT ![c.lib.header] = c.dict]
                   /\ log' = [log EXCEPT ![l] = [fromEmpty |-> ~c.full, calls |-> <<>>]]
              ELSE UNCHANGED <<libs, heap, log>>

----------------------------------------------------------------------------
(* Library.insert *)

\* the checks insert makes before it touches the library; params.columns is
\* read by the column check, and a Series has no such attribute
InsertCheck(lib, params, spectrum) ==
    IF FLen(lib.library_params) # TLen(lib.library_spectra)
    THEN <<"AssertionError", "Length of parameter table and library spectra are not equal.">>
    ELSE IF params.kind = "Series"
    THEN <<"AttributeError", "'Series' object has no attribute 'columns'">>
    ELSE IF ~(LIB_COLS \subseteq params.frame.columns)
    THEN <<"AssertionError", "column required in parameter specification.">>
    ELSE IF ALen(spectrum) # ALen(lib.wav)
    THEN <<"AssertionError", "spectrum is not the same length as library wavelength array">>
    ELSE <<"ok", "">>

\* lines 111-112: the row gets the current length as its index and goes to
\* the end of the table
AppendRowFront(lib, params) ==
    Concat(SetLibIndex(params.frame, TLen(lib.library_spectra)), lib.library_params)

AppendRow(lib, params) ==
    Concat(lib.library_params, SetLibIndex(params.frame, TLen(lib.library_spectra)))

Insert(l, params, spectrum, u_spectrum) ==
    /\ libs[l].live
    /\ TLen(libs[l].library_spectra) < MaxN
    /\ UNCHANGED <<heap, today, paramfile, specfile, saved>>
    /\ LET lib == libs[l]
           chk == InsertCheck(lib, params, spectrum)
       IN  IF chk[1] # "ok"
           THEN /\ result' = Res("insert", l, chk[1], chk[2], 0, <<>>, <<>>, FALSE)
                /\ UNCHANGED <<libs, log, passes>>
           ELSE IF ~VStackOk(lib.library_spectra, spectrum, u_spectrum)
           THEN \* np.vstack raises after the table was replaced
                /\ libs' = [libs EXCEPT ![l].library_params = AppendRow(lib, params)]
                /\ result' = Res("insert", l, "ValueError", "vstack", 0, <<>>, <<>>, FALSE)
                /\ passes' = Stale(l)
                /\ UNCHANGED log
           ELSE /\ libs' = [libs EXCEPT
                              ![l].library_params = AppendRow(lib, params),
                              ![l].library_spectra = VStack(lib.library_spectra, spectrum, u_spectrum)]
                /\ result' = Res("insert", l, "ok", "", TLen(lib.library_spectra),
                                 params.frame.rows, <<spectrum, u_spectrum>>, FALSE)
                /\ passes' = Stale(l)
                /\ log' = [log EXCEPT ![l].calls =
                              Append(@, [name |-> params.frame.rows[1].cps_name,
                                         pair |-> <<spectrum, u_spectrum>>])]

----------------------------------------------------------------------------
(* Library.__contains__ and Library.__getitem__ *)

\* index in self.library_params.index
Contains(lib, index) == InIndex(lib.library_params, index)

ContainsOp(l, index) ==
    /\ libs[l].live
    /\ result' = Res("contains", l, "ok", "", index, <<>>, <<>>, Contains(libs[l], index))
    /\ UNCHANGED <<libs, heap, today, paramfile, specfile, passes, log, saved>>

\* library[index]: KeyError for an index that is not contained; otherwise the
\* returned tuple is evaluated, and its second element reads the attribute
\* loc of an ndarray, which has none
GetItem(l, index) ==
    /\ libs[l].live
    /\ result' =
         IF ~Contains(libs[l], index)
         THEN Res("getitem", l, "KeyError", "", index, <<>>, <<>>, FALSE)
         ELSE Res("getitem", l, "AttributeError",
                  "'numpy.ndarray' object has no attribute 'loc'", index, <<>>, <<>>, FALSE)
    /\ UNCHANGED <<libs, heap, today, paramfile, specfile, passes, log, saved>>

----------------------------------------------------------------------------
(* Library.__iter__ and Library.__next__ *)

\* a for loop p over slot l begins: iter(library) sets the library's counter
\* to 0 and returns the library itself
IterBegin(p, l) ==
    /\ libs[l].live
    /\ passes[p].state = "idle"
    /\ libs' = [libs EXCEPT ![l].it_counter = 0]
    /\ passes' = [q \in PassIds |->
                    IF q = p
                    THEN [lib |-> l, state |-> "running", yielded |-> <<>>,
                          solo |-> Looping(l) = {}, clean |-> TRUE]
                    ELSE IF q \in Looping(l) THEN [passes[q] EXCEPT !.solo = FALSE]
                    ELSE passes[q]]
    /\ result' = Res("iter", l, "ok", "", p, <<>>, <<>>, FALSE)
    /\ UNCHANGED <<heap, today, paramfile, specfile, log, saved>>

\* the counter after __next__ has taken index idx
Advance(idx) == idx + 1

\* the loop p asks for its next item: next(library)
IterNext(p) ==
    /\ passes[p].state = "running"
    /\ LET l == passes[p].lib
           lib == libs[l]
           idx == lib.it_counter
       IN  IF idx >= TLen(lib.library_spectra)
           THEN /\ passes' = [passes EXCEPT ![p].state = "done"]
                /\ result' = Res("next", l, "StopIteration", "", p, <<>>, <<>>, FALSE)
                /\ UNCHANGED libs
           ELSE /\ libs' = [libs EXCEPT ![l].it_counter = Advance(idx)]
                /\ IF Loc(lib.library_params, idx) = <<>>
                   THEN \* library_params.loc[idx] raises, and the loop ends with it
                        /\ passes' = [passes EXCEPT ![p].state = "raised"]
                        /\ result' = Res("next", l, "KeyError", "", p, <<>>, <<>>, FALSE)
                   ELSE /\ passes' = [passes EXCEPT ![p].yielded =
                                        Append(@, [idx  |-> idx,
                                                   rows |-> Loc(lib.library_params, idx),
                                                   pair |-> lib.library_spectra.slabs[idx + 1]])]
                        /\ result' = Res("next", l, "ok", "", p, Loc(lib.library_params, idx),
                                         lib.library_spectra.slabs[idx + 1], FALSE)
    /\ UNCHANGED <<heap, today, paramfile, specfile, log, saved>>

----------------------------------------------------------------------------
(* Library.to_hdf and read_hdf *)

\* library_spectra[:,:,0].nbytes: an (N, depth) array of 8-byte floats
SlabColumnBytes(t) == TLen(t) * t.depth * ItemSize

\* int(target_chunk_bytes / nbytes)
ChunkCol(t) == TargetChunkBytes \div SlabColumnBytes(t)

\* h5py's create_dataset raises ValueError for a chunk shape that is not
\* positive or is greater than the data shape in some dimension; the chunk
\* shape is (N, 2, chunk_col) and the data shape (N, depth, width)
ChunksOk(t) ==
    /\ ChunkCol(t) >= 1
    /\ ChunkDepth <= t.depth
    /\ ChunkCol(t) <= t.width

\* how far to_hdf gets: the parameter file is written, the spectrum file is
\* created and gets the header and the axis, then the chunk size is computed
\* and the dataset created
SaveStatus(lib) ==
    IF lib.library_spectra.width = 0 THEN "IndexError"
    ELSE IF SlabColumnBytes(lib.library_spectra) = 0 THEN "ZeroDivisionError"
    ELSE IF ~ChunksOk(lib.library_spectra) THEN "ValueError"
    ELSE "ok"

ToHdf(l) ==
    /\ libs[l].live
    /\ LET lib == libs[l]
           st == SaveStatus(lib)
       IN  /\ paramfile' = [exists |-> TRUE, table |-> lib.library_params]
           /\ specfile' = [exists          |-> TRUE,
                           attrs           |-> heap[lib.header],
                           wav             |-> lib.wav,
                           has_spectra     |-> st = "ok",
                           library_spectra |-> IF st = "ok" THEN lib.library_spectra
                                               ELSE EmptyTensor(Arr(<<>>, 0))]
           /\ saved' = [called |-> TRUE, library_params |-> lib.library_params,
                        wav |-> lib.wav, library_spectra |-> lib.library_spectra,
                        header |-> heap[lib.header]]
           /\ result' = Res("to_hdf", l, st, "", 0, <<>>, <<>>, FALSE)
    /\ UNCHANGED <<libs, heap, today, passes, log>>

\* np.where((wav > lo) & (wav < hi)) finds a sample
InRange(v, wavlim) == wavlim[1] < v /\ v < wavlim[2]

AnyInRange(wav, wavlim) ==
    \/ \E i \in 1..Len(wav.vals) : InRange(wav.vals[i], wavlim)
    \/ wav.pad > 0 /\ InRange(0, wavlim)

\* how far read_hdf gets before it calls the constructor. With limits, the
\* slice is read from h5, a name the module does not define.
LoadStatus(wavlim) ==
    IF ~paramfile.exists \/ ~specfile.exists THEN "FileNotFoundError"
    ELSE IF wavlim = NoLimits
         THEN (IF specfile.has_spectra THEN "ok" ELSE "KeyError")
    ELSE IF ~AnyInRange(specfile.wav, wavlim) THEN "IndexError"
    ELSE "NameError"

\* lib_l = read_hdf(paramfile, specfile, wavlim)
ReadHdf(l, wavlim) ==
    /\ ~libs[l].live
    /\ UNCHANGED <<today, paramfile, specfile, passes, saved>>
    /\ LET st == LoadStatus(wavlim)
           c  == Constructed(l, specfile.wav, Given(specfile.library_spectra),
                             Given(paramfile.table), Given(specfile.attrs), wavlim)
       IN  IF st # "ok"
           THEN /\ result' = Res("read_hdf", l, st, "", 0, <<>>, wavlim, FALSE)
                /\ UNCHANGED <<libs, heap, log>>
           ELSE /\ result' = Res("read_hdf", l, c.status, c.msg, 0, <<>>, wavlim, FALSE)
                /\ IF c.status = "ok"
                   THEN /\ libs' = [libs EXCEPT ![l] = c.lib]
                        /\ heap' = [heap EXCEPT ![c.lib.header] = c.dict]
                        /\ log' = [log EXCEPT ![l] = NoLog]
                   ELSE UNCHANGED <<libs, heap, log>>

\* the date changes
Tick ==
    /\ today < MaxDay
    /\ today' = today + 1
    /\ UNCHANGED <<libs, heap, paramfile, specfile, passes, result, log, saved>>

----------------------------------------------------------------------------
(* The arguments the callers of the model pass *)

Names == {"a", "b"}
Flux == {1, 2}

SeqsUpTo(S, n) == UNION {[1..k -> S] : k \in 0..n}

\* wavelength axes: the grid 1, 2, .., k
WavInputs == {Arr([i \in 1..k |-> i], 0) : k \in 0..MaxW}

SpectrumInputs == {Arr(s, 0) : s \in SeqsUpTo(Flux, MaxW)}

UncertaintyInputs == {Arr([i \in 1..k |-> 1], 0) : k \in 0..MaxW}

\* a one-row frame (its row not yet indexed), with every column or without
\* vsini, and the same row as a Series
ParamInputs ==
    {[kind |-> kd, frame |-> [columns |-> cols, rows |-> <<Row(0, -1, nm)>>]] :
        kd \in {"DataFrame"}, cols \in {LIB_COLS, LIB_COLS \ {"vsini"}}, nm \in Names}
    \cup {[kind |-> "Series", frame |-> [columns |-> LIB_COLS, rows |-> <<Row(0, -1, "a")>>]]}

\* tables for the full path: up to MaxN rows named "a", "b", .. by position,
\* any index label in -1..MaxN, lib_index the position or MaxN
RowName(k) == IF k = 1 THEN "a" ELSE "b"

TableInputs ==
    {[columns |-> LIB_COLS,
      rows |-> [k \in 1..n |-> Row(lab[k], IF far[k] THEN MaxN ELSE k - 1, RowName(k))]] :
        n \in 0..MaxN, lab \in [1..MaxN -> -1..MaxN], far \in [1..MaxN -> BOOLEAN]}
    \cup {[columns |-> LIB_COLS \ {"vsini"}, rows |-> <<Row(0, 0, "a")>>]}

\* tensors for the full path: n slabs of the given shape, slab k holding k
\* as flux and 1 as uncertainty
TensorOf(n, depth, width, pad) ==
    [depth |-> depth, width |-> width + pad,
     slabs |-> [k \in 1..n |->
                  [d \in 1..depth |-> Arr([i \in 1..width |-> IF d = 1 THEN k ELSE 1], pad)]]]

TensorInputs ==
    {TensorOf(n, 2, w, 0) : n \in 0..MaxN, w \in 0..MaxW}
    \cup {TensorOf(n, 1, 1, 0) : n \in 0..MaxN}

Indices == -1..(MaxN + 1)

\* long arrays for the files: up to MaxW samples, then 0 or BigPad more
Pads == {0, BigPad}

LongWavInputs == {Arr([i \in 1..k |-> i], pd) : k \in 0..MaxW, pd \in Pads}

LongSpectrumInputs == {Arr([i \in 1..k |-> v], pd) : k \in 0..MaxW, v \in Flux, pd \in Pads}

LongUncertaintyInputs == {Arr([i \in 1..k |-> 1], pd) : k \in 0..MaxW, pd \in Pads}

LongTensorInputs == {TensorOf(n, 2, w, pd) : n \in 0..MaxN, w \in 0..MaxW, pd \in Pads}

\* tables whose rows are labelled and indexed by position
DenseTableInputs ==
    {[columns |-> LIB_COLS, rows |-> [k \in 1..n |-> Row(k - 1, k - 1, RowName(k))]] :
        n \in 0..MaxN}

\* wavelength limits
LimitInputs == {<<lo, hi>> : lo \in 0..MaxW, hi \in 1..(MaxW + 1)}

\* headers a caller passes
HeaderInputs == {EmptyDict, DictSet(EmptyDict, "instrument", 1)}

----------------------------------------------------------------------------
(* Specifications *)

NewEmpty(l) ==
    \E wav \in WavInputs :
        NewLibrary(l, wav, NotGiven(EmptyTensor(wav)), NotGiven(EmptyFrame),
                   NotGiven(EmptyDict), NoLimits)

NewFull(l) ==
    \E wav \in WavInputs, sp \in TensorInputs, pr \in TableInputs :
        NewLibrary(l, wav, Given(sp), Given(pr), Given(EmptyDict), NoLimits)

InsertAny(l) ==
    \E params \in ParamInputs, spectrum \in SpectrumInputs, u_spectrum \in UncertaintyInputs :
        Insert(l, params, spectrum, u_spectrum)

Lookup(l) == \E index \in Indices : GetItem(l, index)

Member(l) == \E index \in Indices : ContainsOp(l, index)

\* one library, built empty and filled by insert
NextInsert == NewEmpty(1) \/ InsertAny(1)

SpecInsert == Init /\ [][NextInsert]_vars

\* one library, built by either path, filled by insert and queried
Next == NewEmpty(1) \/ NewFull(1) \/ InsertAny(1) \/ Lookup(1) \/ Member(1)

Spec == Init /\ [][Next]_vars

\* one library and the caller's loops over it
NextIter ==
    \/ NewEmpty(1)
    \/ NewFull(1)
    \/ InsertAny(1)
    \/ \E p \in PassIds : IterBegin(p, 1)
    \/ \E p \in PassIds : IterNext(p)

SpecIter == Init /\ [][NextIter]_vars

\* one library written to the files, and the files read into a second one
NextIO ==
    \/ \E wav \in LongWavInputs :
         NewLibrary(1, wav, NotGiven(EmptyTensor(wav)), NotGiven(EmptyFrame),
                    NotGiven(EmptyDict), NoLimits)
    \/ \E wav \in LongWavInputs, sp \in LongTensorInputs, pr \in DenseTableInputs,
          hd \in HeaderInputs :
         NewLibrary(1, wav, Given(sp), Given(pr), Given(hd), NoLimits)
    \/ \E params \in ParamInputs, spectrum \in LongSpectrumInputs,
          u_spectrum \in LongUncertaintyInputs :
         Insert(1, params, spectrum, u_spectrum)
    \/ ToHdf(1)
    \/ ReadHdf(2, NoLimits)
    \/ \E wavlim \in LimitInputs : ReadHdf(2, wavlim)

SpecIO == Init /\ [][NextIO]_vars

\* two libraries, built on the same day or on different days, with the
\* header argument passed or omitted
NextShare ==
    \/ \E l \in LibIds : NewEmpty(l)
    \/ \E l \in LibIds, wav \in WavInputs, sp \in TensorInputs, pr \in DenseTableInputs,
          hd \in HeaderInputs :
         NewLibrary(l, wav, Given(sp), Given(pr), Given(hd), NoLimits)
    \/ \E l \in LibIds, wav \in WavInputs, sp \in TensorInputs, pr \in DenseTableInputs :
         NewLibrary(l, wav, Given(sp), Given(pr), NotGiven(EmptyDict), NoLimits)
    \/ Tick

SpecShare == Init /\ [][NextShare]_vars

----------------------------------------------------------------------------
(* Claims *)

\* C1: starting from an empty library, k successful inserts leave the library
\* with length k; the row appended by the j-th call carries library index j
\* and sits at position j of the table, its (spectrum, uncertainty) pair at
\* position j of the tensor; earlier rows and slabs stay where they were.
C1_SequentialInserts ==
    \A l \in LibIds :
        (libs[l].live /\ log[l].fromEmpty) =>
            LET k == Len(log[l].calls)
                lib == libs[l]
            IN  /\ LibLen(lib) = k
                /\ FLen(lib.library_params) >= k
                /\ \A j \in 0..(k - 1) :
                     /\ lib.library_params.rows[j + 1].lib_index = j
                     /\ lib.library_params.rows[j + 1].label = j
                     /\ lib.library_params.rows[j + 1].cps_name = log[l].calls[j + 1].name
                     /\ lib.library_spectra.slabs[j + 1] = log[l].calls[j + 1].pair

C1_Witness ==
    /\ libs[1].live /\ log[1].fromEmpty
    /\ Len(log[1].calls) = 2
    /\ log[1].calls[1].name # log[1].calls[2].name
    /\ log[1].calls[1].pair # log[1].calls[2].pair
    /\ result.op = "insert" /\ result.status = "ok"

\* C2: an insert call that fails leaves the parameter table and the tensor
\* as they were before the call.
C2_FailedInsertLeavesLibrary ==
    [][(result'.op = "insert" /\ result'.status # "ok") => libs' = libs]_vars

\* C3: library[i] returns the (row, pair) stored for i when i is present, and
\* fails with KeyError when i is absent.
C3_LookupReturnsEntry ==
    (result.op = "getitem") =>
        LET lib == libs[result.lib]
        IN  IF Contains(lib, result.arg)
            THEN /\ result.status = "ok"
                 /\ result.rows = Loc(lib.library_params, result.arg)
                 /\ result.pair = lib.library_spectra.slabs[result.arg + 1]
            ELSE result.status = "KeyError"

\* C4: i in library is true exactly for the integers 0 <= i < len(library).
C4_MembershipIsDenseRange ==
    (result.op = "contains") =>
        (result.flag <=> (0 <= result.arg /\ result.arg < LibLen(libs[result.lib])))

\* C5: full-path construction fails when some row's lib_index is outside
\* [0, N); every library it constructs has every lib_index within [0, N).
C5_ConstructedIndicesInRange ==
    (result.op = "init" /\ result.flag /\ result.status = "ok") =>
        LET lib == libs[result.lib]
        IN  \A k \in 1..FLen(lib.library_params) :
                /\ lib.library_params.rows[k].lib_index >= 0
                /\ lib.library_params.rows[k].lib_index < LibLen(lib)

\* a pass has ended, by StopIteration or by an error
Ended(p) == passes[p].state \in {"done", "raised"}

\* a pass that yielded the entries 0, 1, .., N-1 of its library, each once
\* and in this order, and then ended
Complete(p) ==
    LET lib == libs[passes[p].lib]
        got == passes[p].yielded
    IN  /\ passes[p].state = "done"
        /\ Len(got) = LibLen(lib)
        /\ \A j \in 1..Len(got) :
             /\ got[j].idx = j - 1
             /\ Len(got[j].rows) = 1
             /\ got[j].pair = lib.library_spectra.slabs[j]

\* C8: two passes over a library in succession, with no insert in between,
\* yield the same sequence: each starts at index 0, yields the entries
\* 0..N-1 in ascending order exactly once, and ends.
C8_SuccessivePassesAgree ==
    /\ \A p \in PassIds :
         (Ended(p) /\ passes[p].solo /\ passes[p].clean) => Complete(p)
    /\ \A p, q \in PassIds :
         (/\ Ended(p) /\ Ended(q) /\ passes[p].lib = passes[q].lib
          /\ passes[p].solo /\ passes[q].solo /\ passes[p].clean /\ passes[q].clean)
         => passes[p].yielded = passes[q].yielded

\* C10: a pass begun while another is in progress has its own cursor:
\* beginning or advancing one pass leaves the other where it was, and each
\* pass yields all N entries in ascending order exactly once and then ends.
C10_OwnCursorPerPass ==
    \A p \in PassIds :
        /\ (passes[p].state = "running" /\ passes[p].clean)
             => libs[passes[p].lib].it_counter = Len(passes[p].yielded)
        /\ (passes[p].state = "done" /\ passes[p].clean)
             => \A j \in 1..LibLen(libs[passes[p].lib]) :
                    j <= Len(passes[p].yielded) /\ passes[p].yielded[j].idx = j - 1

\* the header entries other than the creation date
SameButDate(d, e) ==
    /\ DictKeys(d) \ {"date_created"} = DictKeys(e) \ {"date_created"}
    /\ \A k \in DictKeys(d) \ {"date_created"} : d[k] = e[k]

\* C6: for a library with N >= 1 and W >= 1, save and then load without
\* limits succeeds, and the library loaded has the table, the axis, the
\* tensor and the header saved, but for the date_created entry.
C6_RoundTrip ==
    (/\ result.op = "read_hdf" /\ result.pair = NoLimits
     /\ saved.called
     /\ TLen(saved.library_spectra) >= 1
     /\ ALen(saved.wav) >= 1)
    => /\ result.status = "ok"
       /\ libs[result.lib].library_params = saved.library_params
       /\ libs[result.lib].wav = saved.wav
       /\ libs[result.lib].library_spectra = saved.library_spectra
       /\ SameButDate(heap[libs[result.lib].header], saved.header)

\* the samples of a stored array at the positions where the stored axis is
\* within the limits
Window(a, wav, wavlim) ==
    LET keep == {i \in 1..Len(wav.vals) : InRange(wav.vals[i], wavlim)}
        pos  == [j \in 1..Cardinality(keep) |->
                   CHOOSE i \in keep : Cardinality({h \in keep : h < i}) = j - 1]
    IN  Arr([j \in 1..Cardinality(keep) |-> IF pos[j] <= Len(a.vals) THEN a.vals[pos[j]] ELSE 0],
            IF InRange(0, wavlim) THEN wav.pad ELSE 0)

\* C7: load with limits (lo, hi) returns the samples of the stored axis with
\* lo < v < hi and the stored tensor cut to the same range; when no sample
\* is within the limits it fails with IndexError.
C7_WindowedLoad ==
    (/\ result.op = "read_hdf" /\ result.pair # NoLimits
     /\ specfile.exists /\ specfile.has_spectra)
    => IF AnyInRange(specfile.wav, result.pair)
       THEN /\ result.status = "ok"
            /\ libs[result.lib].wav = Window(specfile.wav, specfile.wav, result.pair)
            /\ TLen(libs[result.lib].library_spectra) = TLen(specfile.library_spectra)
            /\ \A n \in 1..TLen(specfile.library_spectra), d \in 1..2 :
                 libs[result.lib].library_spectra.slabs[n][d] =
                   Window(specfile.library_spectra.slabs[n][d], specfile.wav, result.pair)
       ELSE result.status = "IndexError"

\* C9: constructing or modifying one library, the date it writes into its
\* header included, leaves every other library's header, table, axis and
\* tensor unchanged.
C9_NoSharedState ==
    [][\A l \in LibIds :
          (libs[l].live /\ result'.lib # l)
          => /\ libs'[l] = libs[l]
             /\ heap'[libs[l].header] = heap[libs[l].header]]_vars

====
